---- MODULE Spec2Model ----
(***************************************************************************)
(* Model of gamestonk_terminal/loggers.py: the log directory and identity  *)
(* sentinel (get_log_dir), the logging bootstrap (setup_logging,           *)
(* setup_file_logger, get_commit_hash), the archive upload                 *)
(* (upload_archive_logs_s3, upload_file_to_s3) and the log formatter       *)
(* (CustomFormatterWithExceptions).                                        *)
(*                                                                         *)
(* Python strings on which the code computes (paths, file names, log       *)
(* lines) are sequences of one-character strings.  None is the one-element *)
(* sequence <<"None">>, which no character sequence equals.                *)
(***************************************************************************)
EXTENDS Integers, Sequences, FiniteSets, TLC

\* ------------------------------------------------------------------ bounds
\* Number of times the process is started again (int(time.time()) advances by one
\* tick at each start).
MaxRestarts == 1
\* Largest number of names in cfg.LOGGING_HANDLERS.
MaxHandlers == 2

\* ------------------------------------------------------------- characters
None == <<"None">>
NoFile == <<"ENOENT">>
NL == "\n"
TAB == "\t"
CR == "\r"
SQ == "'"
DQ == "\""
BSL == "\\"
\* The backtick (the character itself cannot stand in a string of this module).
BT == "BACKTICK"
Digit == {"0", "1", "2", "3", "4", "5", "6", "7", "8", "9"}
Whitespace == {" ", NL, TAB, CR}

\* Python truthiness of an optional string.
Truthy(x) == x # None /\ x # <<>>

\* str(n) for a natural number n.
RECURSIVE IntToStr(_)
IntToStr(n) ==
    LET d == <<"0", "1", "2", "3", "4", "5", "6", "7", "8", "9">>[(n % 10) + 1]
    IN  IF n < 10 THEN <<d>> ELSE IntToStr(n \div 10) \o <<d>>

\* str.replace(old, new) for a one-character old.
RECURSIVE Replace(_, _, _)
Replace(s, old, new) ==
    IF s = <<>> THEN <<>>
    ELSE (IF Head(s) = old THEN new ELSE <<Head(s)>>) \o Replace(Tail(s), old, new)

\* str.rstrip(): drops trailing whitespace.
RECURSIVE RStrip(_)
RStrip(s) ==
    IF s # <<>> /\ s[Len(s)] \in Whitespace THEN RStrip(SubSeq(s, 1, Len(s) - 1)) ELSE s

\* file.readline() on a file whose content is s: up to and including the first newline.
ReadLine(s) ==
    IF \E i \in 1..Len(s) : s[i] = NL
    THEN SubSeq(s, 1, CHOOSE i \in 1..Len(s) : s[i] = NL /\ \A j \in 1..(i - 1) : s[j] # NL)
    ELSE s

\* str.rfind(c), 1-based, 0 when absent.
RFind(s, c) ==
    IF \E i \in 1..Len(s) : s[i] = c
    THEN CHOOSE i \in 1..Len(s) : s[i] = c /\ \A j \in (i + 1)..Len(s) : s[j] # c
    ELSE 0

\* Path.name: the last component of a path.
PathName(p) == SubSeq(p, RFind(p, "/") + 1, Len(p))

\* Path.stem: the last component without its last suffix.
PathStem(p) ==
    LET n == PathName(p)
        i == RFind(n, ".")
    IN  IF 1 < i /\ i < Len(n) THEN SubSeq(n, 1, i - 1) ELSE n

\* Path.joinpath(name) / the "/" operator.
JoinPath(p, name) == IF name = <<>> THEN p ELSE p \o <<"/">> \o name

\* --------------------------------------------------------------- regexps
\* A pattern is a sequence of items [cls, star]: one character of cls, or (star)
\* any number of them.
Lit(c) == [cls |-> {c}, star |-> FALSE]
Cls(S) == [cls |-> S, star |-> FALSE]
Star(S) == [cls |-> S, star |-> TRUE]

RECURSIVE MatchAt(_, _, _, _)
MatchAt(s, i, pat, j) ==
    IF j > Len(pat) THEN TRUE
    ELSE IF pat[j].star
         THEN MatchAt(s, i, pat, j + 1)
              \/ (i <= Len(s) /\ s[i] \in pat[j].cls /\ MatchAt(s, i + 1, pat, j))
         ELSE i <= Len(s) /\ s[i] \in pat[j].cls /\ MatchAt(s, i + 1, pat, j + 1)

\* re.compile(pat).search(s)
Search(pat, s) == \E i \in 1..(Len(s) + 1) : MatchAt(s, i, pat, 1)

\* r"\.log\.20[2-3][0-9]-[0-2][0-9]-[0-3][0-9]_[0-2][0-9]*"
DEFAULT_LOG_FILTER ==
    <<Lit("."), Lit("l"), Lit("o"), Lit("g"), Lit("."), Lit("2"), Lit("0"),
      Cls({"2", "3"}), Cls(Digit), Lit("-"), Cls({"0", "1", "2"}), Cls(Digit), Lit("-"),
      Cls({"0", "1", "2", "3"}), Cls(Digit), Lit("_"), Cls({"0", "1", "2"}), Star(Digit)>>

\* r"\.log"
SETUP_LOG_FILTER == <<Lit("."), Lit("l"), Lit("o"), Lit("g")>>

\* ------------------------------------------------------------ file system
\* Path(__file__).parent.parent.absolute().joinpath("logs")
LogDirPath == <<"/", "g", "s", "t", "/", "l", "o", "g", "s">>
\* The values uuid.uuid4() can return (shortened).
Uuids == {<<"u", "1">>, <<"u", "2">>}
ArchiveName == <<"a", "r", "c", "h", "i", "v", "e">>
DotLog == <<".", "l", "o", "g">>
\* time.strftime("%Y-%m-%d_%H") at a rollover of the TimedRotatingFileHandler.
RotationSuffix == <<"2", "0", "2", "3", "-", "0", "1", "-", "0", "1", "_", "0", "0">>

\* f"{start_time}.log"
LogFileName(t) == IntToStr(t) \o DotLog
\* The name a rollover gives the base file.
RotatedName(base) == base \o <<".">> \o RotationSuffix

VARIABLES
    fs,        \* the log root: [logdir, logid, subdirs, files, archive]
    bucket,    \* object keys (file names) stored in the remote bucket
    cfg,       \* cfg.LOGGING_ID, cfg.LOGGING_VERSION, cfg.LOGGING_FILE
    now,       \* int(time.time())
    pc,        \* position of setup_logging
    loc,       \* locals of setup_logging / setup_file_logger
    attached,  \* handlers added to the root logger, with their formatter's fields
    run,       \* the current / last invocation of upload_archive_logs_s3
    gl,        \* the last return of get_log_dir
    fmt        \* the formatter under test: [ctx, rec, out]

vars == <<fs, bucket, cfg, now, pc, loc, attached, run, gl, fmt>>

\* ------------------------------------------------------------- get_log_dir
\* get_log_dir with the test for an existing sentinel lost: every call mints.
get_log_dir_AlwaysMint(f, u) ==
    LET f1 == [f EXCEPT !.logdir = TRUE, !.logid = u \o <<NL>>]
    IN  [fs |-> [f1 EXCEPT !.subdirs = @ \cup {u}], LOGGING_ID |-> u,
         ret |-> JoinPath(LogDirPath, u)]

\* get_log_dir() on the file system f, u being what uuid.uuid4() would return.
\* Returns the new file system, the value left in cfg.LOGGING_ID and the path returned.
get_log_dir(f, u) ==
    LET f1 == [f EXCEPT !.logdir = TRUE]
        id == IF f1.logid = NoFile THEN u ELSE RStrip(ReadLine(f1.logid))
        f2 == IF f1.logid = NoFile THEN [f1 EXCEPT !.logid = u \o <<NL>>] ELSE f1
        f3 == IF JoinPath(LogDirPath, id) = LogDirPath \/ id \in f2.subdirs
              THEN f2
              ELSE [f2 EXCEPT !.subdirs = @ \cup {id}]
    IN  [fs |-> f3, LOGGING_ID |-> id, ret |-> JoinPath(LogDirPath, id)]

\* What the model remembers of a return of get_log_dir.
Returned(g) == [called |-> TRUE, id |-> g.LOGGING_ID, ret |-> g.ret]

\* ------------------------------------------------- upload_archive_logs_s3
NoRun ==
    [status |-> "none", caller |-> "none", consent |-> FALSE, filter |-> "none",
     dir |-> None, matched |-> {}, pending |-> {}, calls |-> 0,
     last |-> [file |-> None, upload |-> "none", rename |-> "none"],
     upFailed |-> FALSE, rnFailed |-> FALSE, info |-> <<>>]

\* The scan with re.match in place of re.search: the filter anchored at the start
\* of the path.
ScanLogFiles_Match(directory, entries, log_filter) ==
    {n \in entries : MatchAt(JoinPath(directory, n), 1, log_filter, 1)}

\* The loop over directory.iterdir(): the entries whose path the filter finds.
ScanLogFiles(directory, entries, log_filter) ==
    {n \in entries : Search(log_filter, JoinPath(directory, n))}

\* upload_archive_logs_s3 with the consent gate lost.
ArchiveStart_NoGate(f, allow, directory_str, log_filter, u, r) ==
    LET g  == get_log_dir(f, u)
        f0 == IF directory_str = None THEN g.fs ELSE f
        directory == IF directory_str = None THEN g.ret ELSE directory_str
        id == PathName(directory)
        f1 == [f0 EXCEPT !.files[id] = @ \cup {ArchiveName}]
        m  == ScanLogFiles(directory, f1.files[id], log_filter)
    IN  [fs |-> f1,
         got |-> [called |-> directory_str = None, LOGGING_ID |-> g.LOGGING_ID,
                  ret |-> g.ret],
         run |-> [r EXCEPT !.status = "running", !.dir = id, !.matched = m, !.pending = m,
                           !.info = <<"Start uploading Logs">>]]

\* upload_archive_logs_s3 up to "Start uploading Logs" (or, without consent, to its
\* return): the consent gate, the directory (get_log_dir() when directory_str is
\* None, u being what uuid.uuid4() would return), the archive directory, the scan.
\* r is the record of the invocation as its caller set it up; got says whether
\* get_log_dir was called, and what it returned.
ArchiveStart(f, allow, directory_str, log_filter, u, r) ==
    IF allow
    THEN LET g  == get_log_dir(f, u)
             f0 == IF directory_str = None THEN g.fs ELSE f
             directory == IF directory_str = None THEN g.ret ELSE directory_str
             id == PathName(directory)
             f1 == [f0 EXCEPT !.files[id] = @ \cup {ArchiveName}]
             m  == ScanLogFiles(directory, f1.files[id], log_filter)
         IN  [fs |-> f1,
              got |-> [called |-> directory_str = None, LOGGING_ID |-> g.LOGGING_ID,
                       ret |-> g.ret],
              run |-> [r EXCEPT !.status = "running", !.dir = id,
                                !.matched = m, !.pending = m,
                                !.info = <<"Start uploading Logs">>]]
    ELSE [fs |-> f,
          got |-> [called |-> FALSE, LOGGING_ID |-> None, ret |-> None],
          run |-> [r EXCEPT !.status = "returned",
                            !.info = <<"Logs not allowed to be collected">>]]

\* The record of a new invocation: who calls, with which filter, and the value
\* gtff.ALLOW_LOG_COLLECTION has.
NewRun(caller, filter, allow) ==
    [NoRun EXCEPT !.caller = caller, !.filter = filter, !.consent = allow]

\* The invocation r once it is over (returned, or left by an exception): its
\* locals are gone.
Finished(r, how, info) ==
    [NoRun EXCEPT !.status = how, !.caller = r.caller, !.filter = r.filter,
                  !.consent = r.consent, !.info = info]

UploadOutcomes == {"ok", "ClientError", "OtherError"}
RenameOutcomes == {"ok", "fail"}

\* upload_file_to_s3 for the file named n: the object key is the file name; a
\* ClientError is logged and swallowed, any other exception leaves the function.
upload_file_to_s3(b, n, up) ==
    [bucket |-> IF up = "ok" THEN b \cup {n} ELSE b, raised |-> up = "OtherError"]

\* One iteration of the loop over log_files.values(): the upload, then the rename.
ProcessFile(f, b, r, n, up, rn) ==
    LET u  == upload_file_to_s3(b, n, up)
        r1 == [r EXCEPT !.calls = @ + 1,
                        !.pending = @ \ {n},
                        !.upFailed = @ \/ up # "ok",
                        !.last = [file |-> n, upload |-> up, rename |-> "none"]]
    IN  IF u.raised
        THEN [fs |-> f, bucket |-> u.bucket, run |-> Finished(r1, "raised", r1.info)]
        ELSE [fs |-> IF rn = "ok"
                     THEN [f EXCEPT !.files[r.dir] = @ \ {n}, !.archive[r.dir] = @ \cup {n}]
                     ELSE f,
              bucket |-> u.bucket,
              run |-> [r1 EXCEPT !.last.rename = rn, !.rnFailed = @ \/ rn # "ok"]]

\* -------------------------------------------------------- get_commit_hash
ShortSha == <<"0", "a", "1", "b", "2", "c", "3", "d">>
GitStates == {"absent", "ok", "broken"}

\* get_commit_hash(): without a .git directory nothing happens; with one, the
\* revision is read (which raises when the repository cannot be read).
get_commit_hash(c, git) ==
    IF git = "absent" THEN [cfg |-> c, raised |-> FALSE]
    ELSE IF git = "ok"
         THEN [cfg |-> [c EXCEPT !.LOGGING_VERSION = <<"s", "h", "a", ":">> \o ShortSha],
               raised |-> FALSE]
         ELSE [cfg |-> c, raised |-> TRUE]

\* ----------------------------------------------------------- formatter
\* str(x) for an optional string.
StrOf(x) == IF x = None THEN <<"N", "o", "n", "e">> ELSE x

\* CustomFormatterWithExceptions.__init__: the three prefix fields.
NewFormatter(logging_id, session_id, c) ==
    [loggingId |-> logging_id, sessionId |-> session_id, version |-> c.LOGGING_VERSION]

\* repr(s) of a Python string: quoted, with backslash, the quote and the control
\* characters escaped; double quotes are used when s holds ' and no ".
RECURSIVE ReprBody(_, _)
ReprBody(s, q) ==
    IF s = <<>> THEN <<>>
    ELSE LET c == Head(s)
             e == IF c = BSL THEN <<BSL, BSL>>
                  ELSE IF c = q THEN <<BSL, q>>
                  ELSE IF c = NL THEN <<BSL, "n">>
                  ELSE IF c = TAB THEN <<BSL, "t">>
                  ELSE IF c = CR THEN <<BSL, "r">>
                  ELSE <<c>>
         IN  e \o ReprBody(Tail(s), q)

Repr(s) ==
    LET has(c) == \E i \in 1..Len(s) : s[i] = c
        q == IF has(SQ) /\ ~has(DQ) THEN DQ ELSE SQ
    IN  <<q>> \o ReprBody(s, q) \o <<q>>

\* formatException: repr of the traceback text the base class renders.
formatException(result) == Repr(result)

\* LOGFORMAT % record: asctime|name|funcName|lineno|message
FormatMessage(rec, funcName, lineno) ==
    rec.asctime \o <<"|">> \o rec.name \o <<"|">> \o funcName \o <<"|">>
        \o IntToStr(lineno) \o <<"|">> \o rec.msg

\* record.exc_text after super().format(record): the formatted exception when
\* the record has exc_info, else None.
ExcText(rec) == IF rec.exc_info # None THEN formatException(rec.exc_info) ELSE None

\* super().format(record): the message line, then on a new line the exception text.
BaseFormat(rec, funcName, lineno) ==
    LET s == FormatMessage(rec, funcName, lineno)
        t == ExcText(rec)
    IN  IF Truthy(t)
        THEN (IF s # <<>> /\ s[Len(s)] = NL THEN s ELSE s \o <<NL>>) \o t
        ELSE s

\* LOGPREFIXFORMAT % logPrefixDict
LogPrefix(levelname, ctx) ==
    StrOf(levelname) \o <<"|">> \o StrOf(ctx.version) \o <<"|">> \o StrOf(ctx.loggingId)
        \o <<"|">> \o StrOf(ctx.sessionId) \o <<"|">>

\* The level character without the override for records with exception text.
LevelChar_NoX(rec) ==
    IF rec.levelname # <<>> THEN <<rec.levelname[1]>> ELSE <<"U">>

\* logPrefixDict["levelname"] as format sets it.
LevelChar(rec) ==
    IF Truthy(ExcText(rec)) THEN <<"X">>
    ELSE IF rec.levelname # <<>> THEN <<rec.levelname[1]>> ELSE <<"U">>

\* The chain of replace calls on a record with exception text.
OneLine(s) ==
    Replace(Replace(Replace(Replace(Replace(s, NL, <<" ", "-", " ">>), TAB, <<" ">>),
                            CR, <<>>), SQ, <<BT>>), DQ, <<BT>>)

\* CustomFormatterWithExceptions.format
format(ctx, rec) ==
    LET over     == rec.func_name_override # None
        funcName == IF over THEN rec.func_name_override ELSE rec.funcName
        lineno   == IF over THEN 0 ELSE rec.lineno
        s        == BaseFormat(rec, funcName, lineno)
    IN  IF Truthy(ExcText(rec))
        THEN LogPrefix(LevelChar(rec), ctx) \o OneLine(s)
        ELSE LogPrefix(LevelChar(rec), ctx) \o s

\* The records the formatter is given.
LevelNames == {<<"E", "R", "R", "O", "R">>, <<"I", "N", "F", "O">>,
               <<"n", "o", "t", "e">>, <<>>}
Messages == {<<"o", "k">>, <<"a", NL, "b">>, <<"q", SQ, DQ>>, <<TAB, CR, "|">>}
Tracebacks == {<<"T", ":", NL, " ", "f">>, <<"E", SQ, "x", SQ>>, <<DQ, TAB, CR, BSL>>}
Records ==
    [levelname : LevelNames, msg : Messages, exc_info : {None} \cup Tracebacks,
     func_name_override : {None, <<"g">>},
     asctime : {<<"T">>}, name : {<<"m">>}, funcName : {<<"f">>}, lineno : {7}]

NoFmt == [ctx |-> None, rec |-> None, out |-> None]

\* ------------------------------------------------------------ the process
\* cfg.LOGGING_ID and cfg.LOGGING_VERSION when the process starts (config_terminal).
InitialLoggingId == None
InitialVersion == None

NoLoc == [START_TIME |-> 0, LOGGING_ID |-> <<>>, i |-> 0, uuid_log_dir |-> None,
          crashedIn |-> "none"]

FreshCfg ==
    [LOGGING_ID |-> InitialLoggingId, LOGGING_VERSION |-> InitialVersion,
     LOGGING_FILE |-> None]

Init ==
    /\ fs = [logdir |-> FALSE, logid |-> NoFile, subdirs |-> {},
             files |-> [d \in Uuids |-> {}], archive |-> [d \in Uuids |-> {}]]
    /\ bucket = {}
    /\ cfg = FreshCfg
    /\ now = 1
    /\ pc = "unconfigured"
    /\ loc = NoLoc
    /\ attached = <<>>
    /\ run = NoRun
    /\ gl = [called |-> FALSE, id |-> None, ret |-> None]
    /\ fmt = NoFmt

Idle == pc = "configured" /\ run.status # "running"

\* A direct call of get_log_dir().
GetLogDirCall ==
    /\ Idle
    /\ \E u \in Uuids :
          LET g == get_log_dir(fs, u)
          IN  /\ fs' = g.fs
              /\ cfg' = [cfg EXCEPT !.LOGGING_ID = g.LOGGING_ID]
              /\ gl' = Returned(g)
    /\ UNCHANGED <<bucket, now, pc, loc, attached, run, fmt>>

\* A direct call of upload_archive_logs_s3() with its default arguments, for
\* either value of gtff.ALLOW_LOG_COLLECTION.
UploadArchiveCall ==
    /\ Idle
    /\ \E u \in Uuids, allow \in BOOLEAN :
          LET a == ArchiveStart(fs, allow, None, DEFAULT_LOG_FILTER, u,
                                NewRun("direct", "default", allow))
          IN  /\ fs' = a.fs
              /\ run' = a.run
              /\ cfg' = IF a.got.called
                        THEN [cfg EXCEPT !.LOGGING_ID = a.got.LOGGING_ID] ELSE cfg
              /\ gl' = IF a.got.called THEN Returned(a.got) ELSE gl
    /\ UNCHANGED <<bucket, now, pc, loc, attached, fmt>>

\* One iteration of the upload loop, for any next file and any outcome of the
\* upload and of the rename.
ArchiveFile ==
    /\ run.status = "running"
    /\ \E n \in run.pending, up \in UploadOutcomes, rn \in RenameOutcomes :
          LET p == ProcessFile(fs, bucket, run, n, up, rn)
          IN  /\ fs' = p.fs
              /\ bucket' = p.bucket
              /\ run' = p.run
              /\ IF p.run.status = "raised" /\ run.caller = "setup_file_logger"
                 THEN pc' = "crashed"
                      /\ loc' = [loc EXCEPT !.crashedIn = "upload_archive_logs_s3"]
                 ELSE UNCHANGED <<pc, loc>>
    /\ UNCHANGED <<cfg, now, attached, gl, fmt>>

\* The end of the upload loop: "Logs uploaded", and the return to the caller.
ArchiveDone ==
    /\ run.status = "running"
    /\ run.pending = {}
    /\ run' = Finished(run, "returned", Append(run.info, "Logs uploaded"))
    /\ pc' = IF run.caller = "setup_file_logger" THEN "file_open" ELSE pc
    /\ UNCHANGED <<fs, bucket, cfg, now, loc, attached, gl, fmt>>

\* setup_logging up to the loop over the handler names, for any state of the
\* .git directory.
SetupLoggingStart ==
    /\ pc = "unconfigured"
    /\ run.status # "running"
    /\ \E git \in GitStates :
          LET h == get_commit_hash(cfg, git)
          IN  /\ cfg' = h.cfg
              /\ loc' = [NoLoc EXCEPT
                            !.START_TIME = now,
                            !.LOGGING_ID = IF Truthy(cfg.LOGGING_ID)
                                           THEN cfg.LOGGING_ID ELSE <<>>,
                            !.i = 1,
                            !.crashedIn = IF h.raised THEN "get_commit_hash" ELSE "none"]
              /\ pc' = IF h.raised THEN "crashed" ELSE "handlers"
    /\ UNCHANGED <<fs, bucket, now, attached, run, gl, fmt>>

\* The loop over cfg.LOGGING_HANDLERS.split(","): the names are drawn as the loop
\* reaches them; the list has at least one name and at most MaxHandlers.
InLoop == pc = "handlers" /\ loc.i <= MaxHandlers

\* The stdout, stderr and noop branches.
AttachStream(kind) ==
    /\ InLoop
    /\ attached' = Append(attached,
          [kind |-> kind,
           formatter |-> NewFormatter(loc.LOGGING_ID, IntToStr(loc.START_TIME), cfg)])
    /\ loc' = [loc EXCEPT !.i = @ + 1]
    /\ UNCHANGED <<fs, bucket, cfg, now, pc, run, gl, fmt>>

\* The else branch: an unknown name.
UnknownHandler ==
    /\ InLoop
    /\ loc' = [loc EXCEPT !.i = @ + 1]
    /\ UNCHANGED <<fs, bucket, cfg, now, pc, attached, run, gl, fmt>>

\* setup_file_logger, first statement: uuid_log_dir = get_log_dir().
FileGetLogDir ==
    /\ InLoop
    /\ \E u \in Uuids :
          LET g == get_log_dir(fs, u)
          IN  /\ fs' = g.fs
              /\ cfg' = [cfg EXCEPT !.LOGGING_ID = g.LOGGING_ID]
              /\ gl' = Returned(g)
              /\ loc' = [loc EXCEPT !.uuid_log_dir = g.ret]
    /\ pc' = "file_preflight"
    /\ UNCHANGED <<bucket, now, attached, run, fmt>>

\* setup_file_logger leaving the filter to its default, the rotation pattern.
PreflightFilter_Default == [pat |-> DEFAULT_LOG_FILTER, name |-> "default"]

\* The filter setup_file_logger passes to upload_archive_logs_s3.
PreflightFilter == [pat |-> SETUP_LOG_FILTER, name |-> "setup"]

\* setup_file_logger, second statement: the call of upload_archive_logs_s3, for
\* either value of gtff.ALLOW_LOG_COLLECTION.
FilePreflight ==
    /\ pc = "file_preflight"
    /\ \E u \in Uuids, allow \in BOOLEAN :
          LET a == ArchiveStart(fs, allow, loc.uuid_log_dir, PreflightFilter.pat, u,
                                NewRun("setup_file_logger", PreflightFilter.name, allow))
          IN  /\ fs' = a.fs
              /\ run' = a.run
              /\ pc' = IF a.run.status = "returned" THEN "file_open" ELSE "file_archiving"
    /\ UNCHANGED <<bucket, cfg, now, loc, attached, gl, fmt>>

\* setup_file_logger, the rest: the new log file, its handler and formatter.
FileOpen ==
    /\ pc = "file_open"
    /\ LET id   == PathName(loc.uuid_log_dir)
           name == LogFileName(now)
       IN  /\ cfg' = [cfg EXCEPT !.LOGGING_FILE = JoinPath(loc.uuid_log_dir, name)]
           /\ fs' = [fs EXCEPT !.files[id] = @ \cup {name}]
           /\ attached' = Append(attached,
                 [kind |-> "file",
                  formatter |-> NewFormatter(PathStem(loc.uuid_log_dir),
                                             IntToStr(loc.START_TIME), cfg)])
    /\ loc' = [loc EXCEPT !.i = @ + 1]
    /\ pc' = "handlers"
    /\ UNCHANGED <<bucket, now, run, gl, fmt>>

\* setup_logging after the loop.
SetupLoggingFinish ==
    /\ pc = "handlers"
    /\ loc.i > 1
    /\ pc' = "configured"
    /\ UNCHANGED <<fs, bucket, cfg, now, loc, attached, run, gl, fmt>>

\* A rollover of the TimedRotatingFileHandler: the base file gets the date suffix
\* and a new base file is opened.
Rollover ==
    /\ pc = "configured"
    /\ run.status # "running"
    /\ cfg.LOGGING_FILE # None
    /\ LET id   == PathName(loc.uuid_log_dir)
           base == PathName(cfg.LOGGING_FILE)
       IN  fs' = [fs EXCEPT !.files[id] = @ \cup {base, RotatedName(base)}]
    /\ UNCHANGED <<bucket, cfg, now, pc, loc, attached, run, gl, fmt>>

\* The process ends and a new one starts: module state is back to its defaults.
Restart ==
    /\ pc \in {"configured", "crashed"}
    /\ run.status # "running"
    /\ now <= MaxRestarts
    /\ now' = now + 1
    /\ cfg' = FreshCfg
    /\ pc' = "unconfigured"
    /\ loc' = NoLoc
    /\ attached' = <<>>
    /\ run' = NoRun
    /\ UNCHANGED <<fs, bucket, gl, fmt>>

Next ==
    \/ GetLogDirCall
    \/ UploadArchiveCall
    \/ ArchiveFile
    \/ ArchiveDone
    \/ SetupLoggingStart
    \/ AttachStream("stdout")
    \/ AttachStream("stderr")
    \/ AttachStream("noop")
    \/ UnknownHandler
    \/ FileGetLogDir
    \/ FilePreflight
    \/ FileOpen
    \/ SetupLoggingFinish
    \/ Rollover
    \/ Restart

Spec == Init /\ [][Next]_vars


\* ------------------------------------------- the formatter on its own
\* The formatters setup_logging constructs, and every record given to one.
FmtInit ==
    /\ fs = [logdir |-> FALSE, logid |-> NoFile, subdirs |-> {},
             files |-> [d \in Uuids |-> {}], archive |-> [d \in Uuids |-> {}]]
    /\ bucket = {}
    /\ cfg = FreshCfg
    /\ now = 1
    /\ pc = "configured"
    /\ loc = NoLoc
    /\ attached = <<>>
    /\ run = NoRun
    /\ gl = [called |-> FALSE, id |-> None, ret |-> None]
    /\ \E id \in {<<>>} \cup Uuids, t \in 1..(MaxRestarts + 1),
          v \in {InitialVersion, <<"s", "h", "a", ":">> \o ShortSha} :
          fmt = [ctx |-> NewFormatter(id, IntToStr(t), [LOGGING_VERSION |-> v]),
                 rec |-> None, out |-> None]

\* A handler formats a record.
FormatRecord ==
    /\ \E r \in Records : fmt' = [fmt EXCEPT !.rec = r, !.out = format(fmt.ctx, r)]
    /\ UNCHANGED <<fs, bucket, cfg, now, pc, loc, attached, run, gl>>

FmtNext == FormatRecord

SpecFmt == FmtInit /\ [][FmtNext]_vars


\* ================================================================ claims
SessionDirs == {d \in Uuids : d \in fs.subdirs}

Range(s) == {s[i] : i \in 1..Len(s)}

\* A date stamp %Y-%m-%d_%H.
IsDateStamp(t) ==
    /\ Len(t) = 13
    /\ \A i \in {1, 2, 3, 4, 6, 7, 9, 10, 12, 13} : t[i] \in Digit
    /\ t[5] = "-" /\ t[8] = "-" /\ t[11] = "_"

\* A name that ends with .log.<date stamp>: a file a rollover has renamed.
HasRotationSuffix(n) ==
    /\ Len(n) >= 18
    /\ SubSeq(n, Len(n) - 17, Len(n) - 14) = DotLog
    /\ n[Len(n) - 13] = "."
    /\ IsDateStamp(SubSeq(n, Len(n) - 12, Len(n)))

\* A path with ".log" somewhere in it.
ContainsDotLog(p) == \E i \in 1..(Len(p) - 3) : SubSeq(p, i, i + 3) = DotLog

\* A step in which the caller's invocation of upload_archive_logs_s3 begins (no
\* invocation begins while one is running).
BeginStep(caller) ==
    run.status # "running" /\ run' # run /\ run'.status # "none" /\ run'.caller = caller

\* A step that is one iteration of the upload loop of the caller's invocation and
\* does not end in an exception.
LoopStep(caller) == run.caller = caller /\ run.status = "running" /\ run'.calls = run.calls + 1

\* What one iteration may do: the upload of one pending file n under its own name,
\* and its move into archive/ exactly when the rename succeeded.
LoopStepEffect ==
    LET n == run'.last.file
        d == run.dir
    IN  /\ n \in run.pending
        /\ run'.pending = run.pending \ {n}
        /\ run'.matched = run.matched
        /\ bucket' = IF run'.last.upload = "ok" THEN bucket \cup {n} ELSE bucket
        /\ IF run'.last.rename = "ok"
           THEN fs' = [fs EXCEPT !.files[d] = @ \ {n}, !.archive[d] = @ \cup {n}]
           ELSE fs' = fs

\* C1 (as claimed): after any sequence of invocations, every file in archive/ has
\* had a successful upload (its key is in the bucket).
C1_ArchivedOnlyIfUploaded == \A d \in Uuids : fs.archive[d] \subseteq bucket

\* C2: an invocation of upload_archive_logs_s3 that finds ALLOW_LOG_COLLECTION false
\* (direct, or from setup_file_logger) returns at once, leaves the log root, the
\* bucket and cfg as they were, uploads nothing, and logs the one skip message.
C2_NoConsentNoEffect ==
    [][((BeginStep("direct") \/ BeginStep("setup_file_logger")) /\ ~run'.consent)
         => /\ fs' = fs
            /\ bucket' = bucket
            /\ cfg' = cfg
            /\ run'.status = "returned"
            /\ run'.calls = 0
            /\ run'.matched = {}
            /\ run'.info = <<"Logs not allowed to be collected">>]_vars

\* C2 witness: a direct call without consent has returned, on a session directory
\* that holds a rotated file and no archive/ subdirectory.
C2_Witness ==
    /\ run.caller = "direct" /\ ~run.consent /\ run.status = "returned"
    /\ \E d \in SessionDirs :
          /\ ArchiveName \notin fs.files[d]
          /\ \E n \in fs.files[d] : HasRotationSuffix(n)

C4_GetLogDirIdempotent ==
    /\ [](gl.called => /\ fs.logdir
                       /\ fs.logid = gl.id \o <<NL>>
                       /\ fs.subdirs = {gl.id}
                       /\ gl.ret = LogDirPath \o <<"/">> \o gl.id)
    /\ [][gl.called => /\ gl' = gl
                       /\ fs'.logdir = fs.logdir
                       /\ fs'.logid = fs.logid
                       /\ fs'.subdirs = fs.subdirs
                       /\ (pc = "handlers" /\ pc' = "file_preflight") => fs' = fs]_vars

\* C4 witness: in a second process, get_log_dir has returned the identity under
\* which the first process opened its log file.
C4_Witness ==
    /\ now = 2 /\ pc = "file_preflight" /\ gl.called
    /\ cfg.LOGGING_ID = gl.id
    /\ LogFileName(1) \in fs.files[gl.id]

\* C5 (as claimed): when setup_logging has finished, every attached formatter is
\* bound to the identity the sentinel file holds.
C5_FormattersBoundToSentinelIdentity ==
    pc = "configured"
        => \A k \in 1..Len(attached) :
              /\ fs.logid # NoFile
              /\ attached[k].formatter.loggingId = RStrip(ReadLine(fs.logid))

C9_RunsToCompletion ==
    /\ run.status # "raised"
    /\ (run.status = "running" /\ run.pending = {}) => run.calls = Cardinality(run.matched)

\* C10 (as claimed): setup_logging never ends in get_commit_hash, whatever the
\* state of the repository.
C10_VersionDetectionNeverFails ==
    ~(pc = "crashed" /\ loc.crashedIn = "get_commit_hash")

\* ------------------------------------------------ claims on the formatter
LowerCase == <<"a", "b", "c", "d", "e", "f", "g", "h", "i", "j", "k", "l", "m",
               "n", "o", "p", "q", "r", "s", "t", "u", "v", "w", "x", "y", "z">>
UpperCase == <<"A", "B", "C", "D", "E", "F", "G", "H", "I", "J", "K", "L", "M",
               "N", "O", "P", "Q", "R", "S", "T", "U", "V", "W", "X", "Y", "Z">>
\* str.upper() of one character.
ToUpper(c) ==
    IF \E i \in 1..26 : LowerCase[i] = c
    THEN UpperCase[CHOOSE i \in 1..26 : LowerCase[i] = c]
    ELSE c

\* The output starts with the level character c and |version|identity|sessionId|.
StartsWithPrefix(out, c, ctx) ==
    LET P == <<c, "|">> \o StrOf(ctx.version) \o <<"|">> \o StrOf(ctx.loggingId)
                \o <<"|">> \o StrOf(ctx.sessionId) \o <<"|">>
    IN  Len(out) >= Len(P) /\ SubSeq(out, 1, Len(P)) = P

\* C6 (as claimed): the first field is "X" for a record with exception text, else
\* the first character of the level name, uppercased; then the three fields.
C6_LevelCharUppercased ==
    fmt.out # None
        => /\ fmt.rec.exc_info # None => StartsWithPrefix(fmt.out, "X", fmt.ctx)
           /\ fmt.rec.exc_info = None
                => /\ fmt.rec.levelname # <<>>
                   /\ StartsWithPrefix(fmt.out, ToUpper(fmt.rec.levelname[1]), fmt.ctx)

\* C6 (amended): the first field is "X" for a record with exception text, else the
\* first character of the level name as it is (no case conversion), or "U" when
\* the level name is empty; then |version|identity|sessionId| as captured.
C6_LevelCharAsIs ==
    fmt.out # None
        => StartsWithPrefix(fmt.out,
                            IF fmt.rec.exc_info # None THEN "X"
                            ELSE IF fmt.rec.levelname = <<>> THEN "U"
                            ELSE fmt.rec.levelname[1],
                            fmt.ctx)

\* C6 witness: an ERROR record with exception text has been formatted with "X".
C6_Witness ==
    /\ fmt.out # None
    /\ fmt.rec.exc_info # None
    /\ fmt.rec.levelname = <<"E", "R", "R", "O", "R">>
    /\ fmt.out[1] = "X"

\* C7 (as claimed): no output of format holds a newline or a carriage return.
C7_OnePhysicalLine ==
    fmt.out # None => Range(fmt.out) \cap {NL, CR} = {}

====
